---- MODULE Spec2Model ----
(***************************************************************************)
(* Model of 3_ParsingArithExp/Lexer.py: the Lexer (getToken,               *)
(* next_valid_token, the tokens() generator) and the recursive prefix      *)
(* parser compute_prefix.                                                  *)
(*                                                                         *)
(* A character is a one-character string; a text is a sequence of          *)
(* characters.  Python offsets are 0-based: input_string[p] is s[p + 1].   *)
(***************************************************************************)
EXTENDS Integers, Sequences, FiniteSets, TLC

(***************************************************************************)
(* Bounds of the model.                                                    *)
(***************************************************************************)
\* longest input of the scanning specification (Spec)
MaxLen == 3
\* longest input of the generator specification (SpecTokens)
MaxTokLen == 3
\* most tokens() generators created on one Lexer
MaxGens == 2
\* longest input of the parser specification (SpecParse) over every character
MaxParseLen == 3
\* longest input of the parser specification over digits, operators and space
MaxFlatLen == 5
\* longest input of the parser specification over "1", "+" and space
MaxExprLen == 9
\* longest input of the parser specification over the ten digits
MaxNumLen == 3

(***************************************************************************)
(* Characters.                                                             *)
(***************************************************************************)
\* str.isdigit() on the ASCII inputs the lexer is given
Digits == {"0", "1", "2", "3", "4", "5", "6", "7", "8", "9"}

isdigit(c) == c \in Digits

\* the dict of getToken with the kinds of lines 224 and 225 exchanged
non_numeric_tokens_swapped ==
    ("+" :> "ADD") @@ ("-" :> "SUB") @@ ("*" :> "MUL") @@ ("/" :> "DIV") @@
    ("(" :> "RPR") @@ (")" :> "LPR") @@ (" " :> "WSP") @@ ("\n" :> "NLN")

\* the dict of getToken
non_numeric_tokens ==
    ("+" :> "ADD") @@ ("-" :> "SUB") @@ ("*" :> "MUL") @@ ("/" :> "DIV") @@
    ("(" :> "LPR") @@ (")" :> "RPR") @@ (" " :> "WSP") @@ ("\n" :> "NLN")

\* class TokenType
TokenType == {"EOF", "NLN", "WSP", "NUM", "LPR", "RPR", "ADD", "SUB", "MUL", "DIV"}

\* Token.operators
operators == {"ADD", "SUB", "MUL", "DIV"}

\* Token(tokenText, tokenKind)
Token(tokenText, tokenKind) == [text |-> tokenText, kind |-> tokenKind]

\* "no token": the call raised, or has not happened
NoToken == [text |-> <<>>, kind |-> "NONE"]

\* "no exception"
NoError == [exc |-> "none", what |-> "none", arg |-> "none"]

\* ValueError(f"Unexpected character: {current_char}")
UnexpectedCharacter(c) ==
    [exc |-> "ValueError", what |-> "Unexpected character", arg |-> c]

\* ValueError(f"Unexpected token type: {token.kind}")
UnexpectedToken(kind) ==
    [exc |-> "ValueError", what |-> "Unexpected token type", arg |-> kind]

(***************************************************************************)
(* Lexer.getToken.  A scan is the outcome of one call: what it returned or *)
(* raised, the position it left, and the number of getToken calls made.    *)
(***************************************************************************)
Returned(tok, pos, n) ==
    [status |-> "return", token |-> tok, error |-> NoError,
     position |-> pos, calls |-> n]

Raised(err, pos, n) ==
    [status |-> "raise", token |-> NoToken, error |-> err,
     position |-> pos, calls |-> n]

\* the NUM branch without the while loop of lines 209 to 214: a number token
\* is its first digit
number_loop_absent(s, len, pos) == pos

\* the while loop of the NUM branch: the position it stops at
RECURSIVE number_loop(_, _, _)
number_loop(s, len, pos) ==
    IF pos < len /\ isdigit(s[pos + 1])
    THEN number_loop(s, len, pos + 1)
    ELSE pos

\* the while loop with "=" for "+=" in line 213: each digit replaces the text
RECURSIVE number_text_last(_, _, _, _)
number_text_last(s, len, pos, text) ==
    IF pos < len /\ isdigit(s[pos + 1])
    THEN number_text_last(s, len, pos + 1, <<s[pos + 1]>>)
    ELSE text

\* the while loop of the NUM branch: the text it has put together, one digit
\* appended per round to the text it started with
RECURSIVE number_text(_, _, _, _)
number_text(s, len, pos, text) ==
    IF pos < len /\ isdigit(s[pos + 1])
    THEN number_text(s, len, pos + 1, Append(text, s[pos + 1]))
    ELSE text

\* getToken with line 204 before line 200: the position moves even at the end
getToken_past_end(s, len, pos) ==
    IF pos >= len
    THEN Returned(Token(<<>>, "EOF"), pos + 1, 1)
    ELSE LET current_char == s[pos + 1]
             p1 == pos + 1
         IN  IF isdigit(current_char)
             THEN LET e == number_loop(s, len, p1)
                      number == number_text(s, len, p1, <<current_char>>)
                  IN  Returned(Token(number, "NUM"), e, 1)
             ELSE IF current_char \notin DOMAIN non_numeric_tokens
                  THEN Raised(UnexpectedCharacter(current_char), p1, 1)
                  ELSE Returned(Token(<<current_char>>,
                                      non_numeric_tokens[current_char]), p1, 1)

\* getToken with ">" for ">=" in line 200: at the end of the input line 203
\* indexes the string out of range
getToken_off_by_one(s, len, pos) ==
    IF pos > len
    THEN Returned(Token(<<>>, "EOF"), pos, 1)
    ELSE IF pos = len
    THEN Raised([exc |-> "IndexError", what |-> "string index out of range",
                 arg |-> "none"], pos, 1)
    ELSE LET current_char == s[pos + 1]
             p1 == pos + 1
         IN  IF isdigit(current_char)
             THEN LET e == number_loop(s, len, p1)
                      number == number_text(s, len, p1, <<current_char>>)
                  IN  Returned(Token(number, "NUM"), e, 1)
             ELSE IF current_char \notin DOMAIN non_numeric_tokens
                  THEN Raised(UnexpectedCharacter(current_char), p1, 1)
                  ELSE Returned(Token(<<current_char>>,
                                      non_numeric_tokens[current_char]), p1, 1)

getToken(s, len, pos) ==
    IF pos >= len
    THEN Returned(Token(<<>>, "EOF"), pos, 1)
    ELSE LET current_char == s[pos + 1]
             p1 == pos + 1
         IN  IF isdigit(current_char)
             THEN LET e == number_loop(s, len, p1)
                      number == number_text(s, len, p1, <<current_char>>)
                  IN  Returned(Token(number, "NUM"), e, 1)
             ELSE IF current_char \notin DOMAIN non_numeric_tokens
                  THEN Raised(UnexpectedCharacter(current_char), p1, 1)
                  ELSE Returned(Token(<<current_char>>,
                                      non_numeric_tokens[current_char]), p1, 1)

(***************************************************************************)
(* Lexer.next_valid_token: getToken, and again while it returns WSP / NLN. *)
(***************************************************************************)
\* next_valid_token with line 119 calling getToken instead of itself: one
\* white space or new line is skipped, not a run of them
next_valid_token_once(s, len, pos) ==
    LET r == getToken(s, len, pos)
    IN  IF r.status = "return" /\ r.token.kind \in {"WSP", "NLN"}
        THEN LET q == getToken(s, len, r.position)
             IN  [q EXCEPT !.calls = q.calls + r.calls]
        ELSE r

\* next_valid_token with [TokenType.WSP] for the list of line 118: a new line
\* is returned like any other token
RECURSIVE next_valid_token_wsp_only(_, _, _)
next_valid_token_wsp_only(s, len, pos) ==
    LET r == getToken(s, len, pos)
    IN  IF r.status = "return" /\ r.token.kind \in {"WSP"}
        THEN LET q == next_valid_token_wsp_only(s, len, r.position)
             IN  [q EXCEPT !.calls = q.calls + r.calls]
        ELSE r

RECURSIVE next_valid_token(_, _, _)
next_valid_token(s, len, pos) ==
    LET r == getToken(s, len, pos)
    IN  IF r.status = "return" /\ r.token.kind \in {"WSP", "NLN"}
        THEN LET q == next_valid_token(s, len, r.position)
             IN  [q EXCEPT !.calls = q.calls + r.calls]
        ELSE r

(***************************************************************************)
(* Lexer.tokens: one resumption of the generator, from its start (line     *)
(* 150) or from the yield (line 156), up to the next yield, the end of     *)
(* the loop (StopIteration) or an exception of getToken.                   *)
(***************************************************************************)
\* tokens without the test of line 153: every token but EOF is yielded
tokens_unfiltered(s, len, pos) ==
    LET r == getToken(s, len, pos)
    IN  IF r.status = "raise"
        THEN r
        ELSE IF r.token.kind = "EOF"
             THEN [r EXCEPT !.status = "StopIteration", !.token = NoToken]
             ELSE [r EXCEPT !.status = "yield"]

RECURSIVE tokens(_, _, _)
tokens(s, len, pos) ==
    LET r == getToken(s, len, pos)
    IN  IF r.status = "raise"
        THEN r
        ELSE IF r.token.kind = "EOF"
             THEN [r EXCEPT !.status = "StopIteration", !.token = NoToken]
             ELSE IF r.token.kind \notin {"WSP", "NLN"}
                  THEN [r EXCEPT !.status = "yield"]
                  ELSE LET q == tokens(s, len, r.position)
                       IN  [q EXCEPT !.calls = q.calls + r.calls]

(***************************************************************************)
(* The expression trees of module Exp, which compute_prefix builds.        *)
(***************************************************************************)
\* "no tree": the call raised, or has not happened
NoValue == [node |-> "None"]

\* Num(n)
Num(n) == [node |-> "Num", num |-> n]

\* Add(a, b), Sub(a, b), Mul(a, b), Div(a, b): operation(a, b)
BinaryExpression(operation, a, b) == [node |-> operation, left |-> a, right |-> b]

\* the dict of compute_prefix
operations_map == [ADD |-> "Add", SUB |-> "Sub", MUL |-> "Mul", DIV |-> "Div"]

\* the value of one decimal digit
DigitValue ==
    ("0" :> 0) @@ ("1" :> 1) @@ ("2" :> 2) @@ ("3" :> 3) @@ ("4" :> 4) @@
    ("5" :> 5) @@ ("6" :> 6) @@ ("7" :> 7) @@ ("8" :> 8) @@ ("9" :> 9)

\* the value of a run of digits in a base
RECURSIVE int_base(_, _)
int_base(text, base) ==
    IF text = <<>>
    THEN 0
    ELSE base * int_base(SubSeq(text, 1, Len(text) - 1), base)
             + DigitValue[text[Len(text)]]

\* int(token.text, 0)-like reading: a leading zero makes the number octal
int_octal(text) ==
    IF Len(text) > 1 /\ text[1] = "0"
    THEN int_base(text, 8)
    ELSE int_base(text, 10)

\* int(token.text) of a run of decimal digits: base 10, leading zeros allowed
RECURSIVE int(_)
int(text) ==
    IF text = <<>>
    THEN 0
    ELSE 10 * int(SubSeq(text, 1, Len(text) - 1)) + DigitValue[text[Len(text)]]

(***************************************************************************)
(* compute_prefix.  The outcome of a call: the tree it returned or the     *)
(* exception it raised, the position it left in the lexer, the number of  *)
(* getToken calls it made and the tokens line 271 fetched, in order.       *)
(***************************************************************************)
Parsed(tree, pos, n, toks) ==
    [status |-> "return", value |-> tree, error |-> NoError,
     position |-> pos, calls |-> n, fetched |-> toks]

Failed(err, pos, n, toks) ==
    [status |-> "raise", value |-> NoValue, error |-> err,
     position |-> pos, calls |-> n, fetched |-> toks]

\* compute_prefix with lines 279 and 280 exchanged: the operand parsed first
\* becomes the right child
RECURSIVE compute_prefix_swapped(_, _, _)
compute_prefix_swapped(s, len, pos) ==
    LET t == next_valid_token(s, len, pos)
    IN  IF t.status = "raise"
        THEN Failed(t.error, t.position, t.calls, <<>>)
        ELSE IF t.token.kind = "NUM"
        THEN Parsed(Num(int(t.token.text)), t.position, t.calls, <<t.token>>)
        ELSE IF t.token.kind \in operators
        THEN LET b == compute_prefix_swapped(s, len, t.position)
             IN  IF b.status = "raise"
                 THEN Failed(b.error, b.position, t.calls + b.calls,
                             <<t.token>> \o b.fetched)
                 ELSE LET a == compute_prefix_swapped(s, len, b.position)
                      IN  IF a.status = "raise"
                          THEN Failed(a.error, a.position,
                                      t.calls + b.calls + a.calls,
                                      <<t.token>> \o b.fetched \o a.fetched)
                          ELSE Parsed(BinaryExpression(operations_map[t.token.kind],
                                                       a.value, b.value),
                                      a.position, t.calls + b.calls + a.calls,
                                      <<t.token>> \o b.fetched \o a.fetched)
        ELSE Failed(UnexpectedToken(t.token.kind), t.position, t.calls, <<t.token>>)

\* compute_prefix without lines 292 and 293: a token that is neither a number
\* nor an operator falls off the end of the function, which returns None
RECURSIVE compute_prefix_no_else(_, _, _)
compute_prefix_no_else(s, len, pos) ==
    LET t == next_valid_token(s, len, pos)
    IN  IF t.status = "raise"
        THEN Failed(t.error, t.position, t.calls, <<>>)
        ELSE IF t.token.kind = "NUM"
        THEN Parsed(Num(int(t.token.text)), t.position, t.calls, <<t.token>>)
        ELSE IF t.token.kind \in operators
        THEN LET a == compute_prefix_no_else(s, len, t.position)
             IN  IF a.status = "raise"
                 THEN Failed(a.error, a.position, t.calls + a.calls,
                             <<t.token>> \o a.fetched)
                 ELSE LET b == compute_prefix_no_else(s, len, a.position)
                      IN  IF b.status = "raise"
                          THEN Failed(b.error, b.position,
                                      t.calls + a.calls + b.calls,
                                      <<t.token>> \o a.fetched \o b.fetched)
                          ELSE Parsed(BinaryExpression(operations_map[t.token.kind],
                                                       a.value, b.value),
                                      b.position, t.calls + a.calls + b.calls,
                                      <<t.token>> \o a.fetched \o b.fetched)
        ELSE Parsed(NoValue, t.position, t.calls, <<t.token>>)

\* compute_prefix catching the exception of line 279 until line 280 has run:
\* the right operand is parsed although the left one failed
RECURSIVE compute_prefix_eager(_, _, _)
compute_prefix_eager(s, len, pos) ==
    LET t == next_valid_token(s, len, pos)
    IN  IF t.status = "raise"
        THEN Failed(t.error, t.position, t.calls, <<>>)
        ELSE IF t.token.kind = "NUM"
        THEN Parsed(Num(int(t.token.text)), t.position, t.calls, <<t.token>>)
        ELSE IF t.token.kind \in operators
        THEN LET a == compute_prefix_eager(s, len, t.position)
                 b == compute_prefix_eager(s, len, a.position)
             IN  IF a.status = "raise"
                 THEN Failed(a.error, b.position, t.calls + a.calls + b.calls,
                             <<t.token>> \o a.fetched \o b.fetched)
                 ELSE IF b.status = "raise"
                 THEN Failed(b.error, b.position, t.calls + a.calls + b.calls,
                             <<t.token>> \o a.fetched \o b.fetched)
                 ELSE Parsed(BinaryExpression(operations_map[t.token.kind],
                                              a.value, b.value),
                             b.position, t.calls + a.calls + b.calls,
                             <<t.token>> \o a.fetched \o b.fetched)
        ELSE Failed(UnexpectedToken(t.token.kind), t.position, t.calls, <<t.token>>)

\* compute_prefix with a sign rule: a '-' with a digit right behind it is the
\* sign of that number and gives a negative leaf
RECURSIVE compute_prefix_signed(_, _, _)
compute_prefix_signed(s, len, pos) ==
    LET t == next_valid_token(s, len, pos)
    IN  IF t.status = "raise"
        THEN Failed(t.error, t.position, t.calls, <<>>)
        ELSE IF t.token.kind = "NUM"
        THEN Parsed(Num(int(t.token.text)), t.position, t.calls, <<t.token>>)
        ELSE IF /\ t.token.kind = "SUB"
                /\ t.position < len
                /\ isdigit(s[t.position + 1])
        THEN LET n == getToken(s, len, t.position)
             IN  Parsed(Num(0 - int(n.token.text)), n.position,
                        t.calls + n.calls, <<t.token, n.token>>)
        ELSE IF t.token.kind \in operators
        THEN LET a == compute_prefix_signed(s, len, t.position)
             IN  IF a.status = "raise"
                 THEN Failed(a.error, a.position, t.calls + a.calls,
                             <<t.token>> \o a.fetched)
                 ELSE LET b == compute_prefix_signed(s, len, a.position)
                      IN  IF b.status = "raise"
                          THEN Failed(b.error, b.position,
                                      t.calls + a.calls + b.calls,
                                      <<t.token>> \o a.fetched \o b.fetched)
                          ELSE Parsed(BinaryExpression(operations_map[t.token.kind],
                                                       a.value, b.value),
                                      b.position, t.calls + a.calls + b.calls,
                                      <<t.token>> \o a.fetched \o b.fetched)
        ELSE Failed(UnexpectedToken(t.token.kind), t.position, t.calls, <<t.token>>)

\* compute_prefix with one token of lookahead: behind a number it fetches the
\* token that follows, to see whether the expression goes on, and drops it
RECURSIVE compute_prefix_lookahead(_, _, _)
compute_prefix_lookahead(s, len, pos) ==
    LET t == next_valid_token(s, len, pos)
    IN  IF t.status = "raise"
        THEN Failed(t.error, t.position, t.calls, <<>>)
        ELSE IF t.token.kind = "NUM"
        THEN LET n == next_valid_token(s, len, t.position)
             IN  Parsed(Num(int(t.token.text)),
                        IF n.status = "return" THEN n.position ELSE t.position,
                        t.calls + n.calls, <<t.token>>)
        ELSE IF t.token.kind \in operators
        THEN LET a == compute_prefix_lookahead(s, len, t.position)
             IN  IF a.status = "raise"
                 THEN Failed(a.error, a.position, t.calls + a.calls,
                             <<t.token>> \o a.fetched)
                 ELSE LET b == compute_prefix_lookahead(s, len, a.position)
                      IN  IF b.status = "raise"
                          THEN Failed(b.error, b.position,
                                      t.calls + a.calls + b.calls,
                                      <<t.token>> \o a.fetched \o b.fetched)
                          ELSE Parsed(BinaryExpression(operations_map[t.token.kind],
                                                       a.value, b.value),
                                      b.position, t.calls + a.calls + b.calls,
                                      <<t.token>> \o a.fetched \o b.fetched)
        ELSE Failed(UnexpectedToken(t.token.kind), t.position, t.calls, <<t.token>>)

\* compute_prefix with a branch for EOF that stands for a missing operand:
\* the end of the input is a leaf 0 and the parse goes on
RECURSIVE compute_prefix_eof_operand(_, _, _)
compute_prefix_eof_operand(s, len, pos) ==
    LET t == next_valid_token(s, len, pos)
    IN  IF t.status = "raise"
        THEN Failed(t.error, t.position, t.calls, <<>>)
        ELSE IF t.token.kind = "NUM"
        THEN Parsed(Num(int(t.token.text)), t.position, t.calls, <<t.token>>)
        ELSE IF t.token.kind = "EOF"
        THEN Parsed(Num(0), t.position, t.calls, <<t.token>>)
        ELSE IF t.token.kind \in operators
        THEN LET a == compute_prefix_eof_operand(s, len, t.position)
             IN  IF a.status = "raise"
                 THEN Failed(a.error, a.position, t.calls + a.calls,
                             <<t.token>> \o a.fetched)
                 ELSE LET b == compute_prefix_eof_operand(s, len, a.position)
                      IN  IF b.status = "raise"
                          THEN Failed(b.error, b.position,
                                      t.calls + a.calls + b.calls,
                                      <<t.token>> \o a.fetched \o b.fetched)
                          ELSE Parsed(BinaryExpression(operations_map[t.token.kind],
                                                       a.value, b.value),
                                      b.position, t.calls + a.calls + b.calls,
                                      <<t.token>> \o a.fetched \o b.fetched)
        ELSE Failed(UnexpectedToken(t.token.kind), t.position, t.calls, <<t.token>>)

RECURSIVE compute_prefix(_, _, _)
compute_prefix(s, len, pos) ==
    LET t == next_valid_token(s, len, pos)
    IN  IF t.status = "raise"
        THEN Failed(t.error, t.position, t.calls, <<>>)
        ELSE IF t.token.kind = "NUM"
        THEN Parsed(Num(int(t.token.text)), t.position, t.calls, <<t.token>>)
        ELSE IF t.token.kind \in operators
        THEN LET a == compute_prefix(s, len, t.position)
             IN  IF a.status = "raise"
                 THEN Failed(a.error, a.position, t.calls + a.calls,
                             <<t.token>> \o a.fetched)
                 ELSE LET b == compute_prefix(s, len, a.position)
                      IN  IF b.status = "raise"
                          THEN Failed(b.error, b.position,
                                      t.calls + a.calls + b.calls,
                                      <<t.token>> \o a.fetched \o b.fetched)
                          ELSE Parsed(BinaryExpression(operations_map[t.token.kind],
                                                       a.value, b.value),
                                      b.position, t.calls + a.calls + b.calls,
                                      <<t.token>> \o a.fetched \o b.fetched)
        ELSE Failed(UnexpectedToken(t.token.kind), t.position, t.calls, <<t.token>>)

(***************************************************************************)
(* The state: one Lexer, the tokens() generators created on it, the        *)
(* outcome of the last call made on it and the tokens handed out so far.   *)
(***************************************************************************)
VARIABLES
    input_string,   \* Lexer.input_string
    position,       \* Lexer.position
    length,         \* Lexer.length
    gens,           \* the generators made by tokens(), each "created", "suspended",
                    \* "finished" or "failed"
    ret,            \* the last call: its name, where it started and its outcome
    history         \* the tokens other than EOF returned or yielded so far, in call
                    \* order, each with the call that handed it out

vars == <<input_string, position, length, gens, ret, history>>

\* the characters of the inputs: two digits, every other recognised character
\* and one that is not recognised
Chars == {"1", "2", "+", "-", "*", "/", "(", ")", " ", "\n", "@"}

\* the characters of the generator specification's inputs, one of each class
TokChars == {"1", "+", " ", "\n", "@"}

\* the characters of the parser specification's longer inputs
FlatChars == {"1", "2", "+", "-", "*", "/", " "}

ExprChars == {"1", "+", " "}

\* every text over A of at most n characters
Strings(A, n) == UNION {[1..k -> A] : k \in 0..n}

\* the input of the examples in the docstrings of the Lexer: "1 2 +"
DocstringInput == <<"1", " ", "2", " ", "+">>

LexerInputs == Strings(Chars, MaxLen) \cup {DocstringInput}

TokensInputs == Strings(TokChars, MaxTokLen)

ParserInputs ==
    Strings(Chars, MaxParseLen) \cup Strings(FlatChars, MaxFlatLen)
        \cup Strings(ExprChars, MaxExprLen) \cup Strings(Digits, MaxNumLen)

\* the outcome of a call, as ret keeps it
Outcome(op, gen, start, status, token, error, value, calls, fetched) ==
    [op |-> op, gen |-> gen, start |-> start, status |-> status, token |-> token,
     error |-> error, value |-> value, calls |-> calls, fetched |-> fetched]

NoCall == Outcome("none", 0, 0, "none", NoToken, NoError, NoValue, 0, <<>>)

\* an entry of history
Event(op, gen, token) == [op |-> op, gen |-> gen, token |-> token]

\* Lexer.__init__
Lexer(s) ==
    /\ input_string = s
    /\ position = 0
    /\ length = Len(s)
    /\ gens = <<>>
    /\ ret = NoCall
    /\ history = <<>>

Init == \E s \in LexerInputs : Lexer(s)

InitTokens == \E s \in TokensInputs : Lexer(s)

InitParse == \E s \in ParserInputs : Lexer(s)

\* lexer.getToken()
Call_getToken ==
    LET r == getToken(input_string, length, position)
    IN  /\ position' = r.position
        /\ ret' = Outcome("getToken", 0, position, r.status, r.token, r.error,
                          NoValue, r.calls, <<>>)
        /\ history' = IF r.status = "return" /\ r.token.kind # "EOF"
                      THEN Append(history, Event("getToken", 0, r.token))
                      ELSE history
        /\ UNCHANGED <<input_string, length, gens>>

\* lexer.next_valid_token()
Call_next_valid_token ==
    LET r == next_valid_token(input_string, length, position)
    IN  /\ position' = r.position
        /\ ret' = Outcome("next_valid_token", 0, position, r.status, r.token,
                          r.error, NoValue, r.calls, <<>>)
        /\ history' = IF r.status = "return" /\ r.token.kind # "EOF"
                      THEN Append(history, Event("next_valid_token", 0, r.token))
                      ELSE history
        /\ UNCHANGED <<input_string, length, gens>>

\* lexer.tokens() as an ordinary method that scans when it is called: the
\* first token is read, and lost, at the creation of the iterator
Call_tokens_eager ==
    /\ Len(gens) < MaxGens
    /\ gens' = Append(gens, "created")
    /\ position' = tokens(input_string, length, position).position
    /\ ret' = Outcome("tokens", Len(gens) + 1, position, "return", NoToken,
                      NoError, NoValue, 0, <<>>)
    /\ UNCHANGED <<input_string, length, history>>

\* lexer.tokens(): makes a generator; no line of its body runs yet
Call_tokens ==
    /\ Len(gens) < MaxGens
    /\ gens' = Append(gens, "created")
    /\ ret' = Outcome("tokens", Len(gens) + 1, position, "return", NoToken,
                      NoError, NoValue, 0, <<>>)
    /\ UNCHANGED <<input_string, position, length, history>>

\* the state a resumption leaves the generator in: suspended at the yield,
\* or over, its body having returned ("finished") or raised ("failed")
GenState(status) ==
    IF status = "yield" THEN "suspended"
    ELSE IF status = "StopIteration" THEN "finished"
    ELSE "failed"

\* next(it) when tokens() begins with self.position = 0: a generator that is
\* started reads the input again from its first character
Call_next_restart(i) ==
    IF gens[i] \in {"finished", "failed"}
    THEN /\ ret' = Outcome("next", i, position, "StopIteration", NoToken,
                           NoError, NoValue, 0, <<>>)
         /\ UNCHANGED <<input_string, position, length, gens, history>>
    ELSE LET from == IF gens[i] = "created" THEN 0 ELSE position
             r == tokens(input_string, length, from)
         IN  /\ position' = r.position
             /\ gens' = [gens EXCEPT ![i] = GenState(r.status)]
             /\ ret' = Outcome("next", i, position, r.status, r.token, r.error,
                               NoValue, r.calls, <<>>)
             /\ history' = IF r.status = "yield"
                           THEN Append(history, Event("next", i, r.token))
                           ELSE history
             /\ UNCHANGED <<input_string, length>>

\* next(it) on the i-th generator; one that is over raises StopIteration
Call_next(i) ==
    IF gens[i] \in {"finished", "failed"}
    THEN /\ ret' = Outcome("next", i, position, "StopIteration", NoToken,
                           NoError, NoValue, 0, <<>>)
         /\ UNCHANGED <<input_string, position, length, gens, history>>
    ELSE LET r == tokens(input_string, length, position)
         IN  /\ position' = r.position
             /\ gens' = [gens EXCEPT ![i] = GenState(r.status)]
             /\ ret' = Outcome("next", i, position, r.status, r.token, r.error,
                               NoValue, r.calls, <<>>)
             /\ history' = IF r.status = "yield"
                           THEN Append(history, Event("next", i, r.token))
                           ELSE history
             /\ UNCHANGED <<input_string, length>>

\* compute_prefix(lexer) followed by a check that the lexer is exhausted: a
\* tree with anything but blanks behind it is turned into an error
Call_compute_prefix_strict ==
    LET r == compute_prefix(input_string, length, position)
        t == next_valid_token(input_string, length, r.position)
        strict == IF r.status = "raise"
                  THEN r
                  ELSE IF t.status = "raise"
                  THEN Failed(t.error, t.position, r.calls + t.calls, r.fetched)
                  ELSE IF t.token.kind # "EOF"
                  THEN Failed(UnexpectedToken(t.token.kind), t.position,
                              r.calls + t.calls, r.fetched \o <<t.token>>)
                  ELSE r
    IN  /\ position' = strict.position
        /\ ret' = Outcome("compute_prefix", 0, position, strict.status, NoToken,
                          strict.error, strict.value, strict.calls, strict.fetched)
        /\ UNCHANGED <<input_string, length, gens, history>>

\* compute_prefix(lexer)
Call_compute_prefix ==
    LET r == compute_prefix(input_string, length, position)
    IN  /\ position' = r.position
        /\ ret' = Outcome("compute_prefix", 0, position, r.status, NoToken,
                          r.error, r.value, r.calls, r.fetched)
        /\ UNCHANGED <<input_string, length, gens, history>>

\* scanning: direct calls of the two scan methods
Next ==
    \/ Call_getToken
    \/ Call_next_valid_token

Spec == Init /\ [][Next]_vars

\* the generators as well, their pulls interleaved with the direct calls
NextTokens ==
    \/ Call_getToken
    \/ Call_next_valid_token
    \/ Call_tokens
    \/ \E i \in DOMAIN gens : Call_next(i)

SpecTokens == InitTokens /\ [][NextTokens]_vars

NextParse == Call_compute_prefix

SpecParse == InitParse /\ [][NextParse]_vars

(***************************************************************************)
(* Properties of compute_prefix, under SpecParse.                          *)
(***************************************************************************)
\* the last call was compute_prefix on a Lexer nothing had been read from
ParsedFresh == ret.op = "compute_prefix" /\ ret.start = 0

\* a text that is one whole prefix expression: parsed alone on a fresh Lexer,
\* it gives a tree and leaves nothing unread
ValidExpression(text) ==
    LET r == compute_prefix(text, Len(text), 0)
    IN  r.status = "return" /\ r.position = Len(text)

\* the tree of a text parsed alone on a fresh Lexer
TreeOf(text) == compute_prefix(text, Len(text), 0).value

\* the node kind the operator characters stand for
NodeOfOperator == ("+" :> "Add") @@ ("-" :> "Sub") @@ ("*" :> "Mul") @@ ("/" :> "Div")

\* input_string is "<op> <E1-text> <E2-text>", the second space at offset j
\* (1-based), with E1 and E2 valid expressions
IsBinaryText(j) ==
    /\ length >= 5
    /\ input_string[1] \in DOMAIN NodeOfOperator
    /\ input_string[2] = " "
    /\ j \in 4..(length - 1)
    /\ input_string[j] = " "
    /\ ValidExpression(SubSeq(input_string, 3, j - 1))
    /\ ValidExpression(SubSeq(input_string, j + 1, length))

\* C1: parsing "<op> <E1-text> <E2-text>" on a fresh Lexer returns the binary
\* node of the kind op stands for, whose left child is the tree of E1 parsed
\* alone and whose right child is the tree of E2 parsed alone.
C1_BinaryNodeInOrder ==
    ParsedFresh =>
        \A j \in 1..length :
            IsBinaryText(j) =>
                /\ ret.status = "return"
                /\ ret.value.node = NodeOfOperator[input_string[1]]
                /\ ret.value.left = TreeOf(SubSeq(input_string, 3, j - 1))
                /\ ret.value.right = TreeOf(SubSeq(input_string, j + 1, length))

\* C1 witness: such an input has been parsed, E1 itself an operator expression
\* and the two children different trees
C1_Witness ==
    /\ ParsedFresh
    /\ \E j \in 1..length :
           /\ IsBinaryText(j)
           /\ input_string[3] \in DOMAIN NodeOfOperator
           /\ ret.value.left # ret.value.right

\* the kinds compute_prefix neither turns into a leaf nor into a binary node
RejectedKinds == {"EOF", "LPR", "RPR"}

\* C2: a token compute_prefix fetches whose kind is EOF, LPR or RPR is the last
\* one it fetches: the call raises the unexpected-token error carrying that
\* kind and returns no tree.  An input of digits, operators and white space
\* that ends before every operator has its two operands fails with kind EOF.
C2_UnexpectedTokenRaised ==
    ret.op = "compute_prefix" =>
        /\ \A k \in 1..Len(ret.fetched) :
               ret.fetched[k].kind \in RejectedKinds =>
                   /\ k = Len(ret.fetched)
                   /\ ret.status = "raise"
                   /\ ret.error = [exc |-> "ValueError",
                                   what |-> "Unexpected token type",
                                   arg |-> ret.fetched[k].kind]
                   /\ ret.value = NoValue
        /\ \A k \in 1..Len(ret.fetched) :
               ret.fetched[k].kind \in TokenType \ {"WSP", "NLN"}
        /\ (/\ ret.status = "raise"
            /\ \A k \in (ret.start + 1)..length :
                   input_string[k] \in Digits \cup {"+", "-", "*", "/", " ", "\n"})
               => /\ ret.error.what = "Unexpected token type"
                  /\ ret.error.arg = "EOF"
                  /\ ret.fetched[Len(ret.fetched)] = [text |-> <<>>, kind |-> "EOF"]
        /\ (input_string = <<"+">> /\ ret.start = 0)
               => ret.status = "raise" /\ ret.error.arg = "EOF"

\* C2 witness: an operator got its first operand and the input ended
C2_Witness ==
    /\ ParsedFresh
    /\ Len(ret.fetched) = 3
    /\ ret.fetched[1].kind \in operators
    /\ ret.fetched[2].kind = "NUM"
    /\ ret.fetched[3].kind = "EOF"
    /\ ret.status = "raise"
    /\ ret.error.arg = "EOF"

\* text with the character w put in after its first i characters
Insert(text, i, w) ==
    SubSeq(text, 1, i) \o <<w>> \o SubSeq(text, i + 1, Len(text))

\* the place after the first i characters of text is not inside a number
BetweenTokens(text, i) ==
    ~ (i >= 1 /\ i < Len(text) /\ isdigit(text[i]) /\ isdigit(text[i + 1]))

\* C3: a space or a newline put in anywhere but inside a number changes neither
\* whether the input parses nor the tree returned (so taking one out, the
\* same step backwards, changes nothing either).
C3_WhitespaceInsensitive ==
    ParsedFresh =>
        \A i \in 0..length : \A w \in {" ", "\n"} :
            BetweenTokens(input_string, i) =>
                LET spaced == Insert(input_string, i, w)
                    r == compute_prefix(spaced, Len(spaced), 0)
                IN  /\ r.status = ret.status
                    /\ r.value = ret.value

\* C3 witness: a binary node parsed from an input that already has two white
\* space characters in a row
C3_Witness ==
    /\ ParsedFresh
    /\ ret.status = "return"
    /\ ret.value.node = "Add"
    /\ \E i \in 1..(length - 1) :
           input_string[i] = " " /\ input_string[i + 1] = " "

\* the characters neither getToken nor the dispatch of compute_prefix fails on
Harmless == Digits \cup {"+", "-", "*", "/", " ", "\n"}

\* the offset (0-based) of the first character at or after p that is not
\* harmless, Len(text) when there is none
RECURSIVE FirstBad(_, _)
FirstBad(text, p) ==
    IF p >= Len(text) \/ text[p + 1] \notin Harmless
    THEN p
    ELSE FirstBad(text, p + 1)

\* the number of getToken calls that read text from offset p up to offset q
RECURSIVE ScansBetween(_, _, _)
ScansBetween(text, p, q) ==
    IF p >= q
    THEN 0
    ELSE 1 + ScansBetween(text, getToken(text, Len(text), p).position, q)

\* C4: a compute_prefix call that raises returns no tree, raises the error of
\* the first scan or dispatch that fails, and has scanned nothing after it: the
\* position is just after the failing token (the end of the input when that
\* token is EOF) and no getToken call was made beyond it.  A call that returns
\* has met no failing character.
C4_FatalOnFirstError ==
    ret.op = "compute_prefix" =>
        LET bad == FirstBad(input_string, ret.start)
        IN  IF ret.status = "raise"
            THEN /\ ret.value = NoValue
                 /\ position = IF bad < length THEN bad + 1 ELSE length
                 /\ ret.error =
                        IF bad >= length THEN UnexpectedToken("EOF")
                        ELSE IF input_string[bad + 1] = "(" THEN UnexpectedToken("LPR")
                        ELSE IF input_string[bad + 1] = ")" THEN UnexpectedToken("RPR")
                        ELSE UnexpectedCharacter(input_string[bad + 1])
                 /\ ret.calls = ScansBetween(input_string, ret.start, bad)
                                    + 1
            ELSE /\ ret.status = "return"
                 /\ position <= bad
                 /\ ret.value # NoValue

\* C4 witness: the left operand of an operator failed and the text of a right
\* operand is still unread
C4_Witness ==
    /\ ParsedFresh
    /\ ret.status = "raise"
    /\ Len(ret.fetched) >= 1
    /\ ret.fetched[1].kind \in operators
    /\ position < length
    /\ isdigit(input_string[length])

(***************************************************************************)
(* Properties of the scan methods, under Spec, and of the generators,      *)
(* under SpecTokens.                                                       *)
(***************************************************************************)
\* the characters getToken makes a token of
Recognised == Digits \cup {"+", "-", "*", "/", "(", ")", " ", "\n"}

\* C5: getToken on a character that is no digit and none of + - * / ( ) space
\* newline raises the unexpected-character error carrying it, and no scan call
\* made on the Lexer after that error returns a token made of the characters
\* behind the offending one.
C5_UnexpectedCharacterIsFatal ==
    [][/\ (/\ ret'.op = "getToken"
           /\ position < length
           /\ input_string[position + 1] \notin Recognised)
          => /\ ret'.status = "raise"
             /\ ret'.error = [exc |-> "ValueError", what |-> "Unexpected character",
                              arg |-> input_string[position + 1]]
       /\ (ret.status = "raise" /\ ret.error.what = "Unexpected character")
          => ~ (ret'.status = "return" /\ ret'.token.kind # "EOF")]_vars

\* C6: the position stays between 0 and the length, and no call moves it back.
C6_PositionBounded ==
    [][/\ 0 <= position /\ position <= length
       /\ 0 <= position' /\ position' <= length'
       /\ position <= position']_vars

\* C6 witness: a call that raised has moved the position, after another call
C6_Witness ==
    /\ ret.status = "raise"
    /\ 0 < ret.start
    /\ ret.start < position
    /\ position <= length

\* C7: getToken and next_valid_token called with the position at the length
\* return the EOF token, its text empty, and leave the position where it is.
C7_EndOfInputIdempotent ==
    [][(position = length /\ ret'.op \in {"getToken", "next_valid_token"})
          => /\ ret'.status = "return"
             /\ ret'.error = NoError
             /\ ret'.token = [text |-> <<>>, kind |-> "EOF"]
             /\ position' = position]_vars

\* C7 witness: a scan that started at the end of a non-empty input, after an
\* earlier scan that had already returned EOF there
C7_Witness ==
    /\ length > 0
    /\ position = length
    /\ ret.start = length
    /\ ret.op = "next_valid_token"
    /\ ret.token.kind = "EOF"
    /\ history # <<>>
    /\ history[Len(history)].op = "getToken"

\* the offset of the first character at or after p that is neither a space nor
\* a newline, Len(text) when there is none
RECURSIVE SkipBlanks(_, _)
SkipBlanks(text, p) ==
    IF p >= Len(text) \/ text[p + 1] \notin {" ", "\n"}
    THEN p
    ELSE SkipBlanks(text, p + 1)

\* C8: the token next_valid_token returns is never WSP or NLN: it is the token
\* getToken makes at the first character that is neither a space nor a newline
\* (EOF when there is none), and the position is left just behind it.
C8_NextValidTokenSkips ==
    (ret.op = "next_valid_token" /\ ret.status = "return") =>
        LET q == SkipBlanks(input_string, ret.start)
            first == getToken(input_string, length, q)
        IN  /\ ret.token.kind \notin {"WSP", "NLN"}
            /\ first.status = "return"
            /\ ret.token = first.token
            /\ position = first.position
            /\ q = length => (ret.token.kind = "EOF" /\ position = length)

\* C8 witness: next_valid_token went over a newline and a space and returned a
\* number
C8_Witness ==
    /\ ret.op = "next_valid_token"
    /\ ret.status = "return"
    /\ ret.token.kind = "NUM"
    /\ ret.calls = 3
    /\ input_string[ret.start + 1] = "\n"

\* the tokens repeated next_valid_token calls return from offset p on, up to
\* the first EOF (or the first call that raises)
RECURSIVE ValidTokensFrom(_, _)
ValidTokensFrom(text, p) ==
    LET r == next_valid_token(text, Len(text), p)
    IN  IF r.status = "raise" \/ r.token.kind = "EOF"
        THEN <<>>
        ELSE <<r.token>> \o ValidTokensFrom(text, r.position)

\* every token handed out so far was yielded by the i-th generator
OnlyConsumer(i) ==
    \A k \in 1..Len(history) : history[k].op = "next" /\ history[k].gen = i

\* C9: on an input of recognised characters, the tokens a generator has
\* yielded when it is consumed to its end, nothing else having taken a token
\* from the Lexer, are no more than the input has characters, none of them
\* WSP, NLN or EOF, and are the tokens repeated next_valid_token calls return
\* on a fresh Lexer over the same input before the first EOF.
C9_TokensEqualsNextValidToken ==
    \A i \in DOMAIN gens :
        (/\ gens[i] = "finished"
         /\ OnlyConsumer(i)
         /\ \A k \in 1..length : input_string[k] \in Recognised)
        => /\ Len(history) <= length
           /\ \A k \in 1..Len(history) :
                  history[k].token.kind \notin {"WSP", "NLN", "EOF"}
           /\ [k \in 1..Len(history) |-> history[k].token]
                  = ValidTokensFrom(input_string, 0)

\* C9 witness: one generator consumed to its end over an input with a white
\* space between two tokens
C9_Witness ==
    /\ gens = <<"finished">>
    /\ OnlyConsumer(1)
    /\ Len(history) = 2
    /\ length = 3
    /\ input_string[2] \in {" ", "\n"}

\* C10: once a generator has been consumed to its end the position is at the
\* length, and no call hands out a token any more: next() on any generator of
\* the Lexer, one made afterwards included, raises StopIteration.
C10_SinglePass ==
    (\E i \in DOMAIN gens : gens[i] = "finished") =>
        /\ position = length
        /\ ret.op = "next" => (ret.status = "StopIteration" /\ ret.token = NoToken)
        /\ ret.op \in {"getToken", "next_valid_token"} => ret.token.kind = "EOF"

\* C10 witness: the first generator yielded every token and was consumed to its
\* end; the second one, which never yielded, has been started and is over
C10_Witness ==
    /\ gens = <<"finished", "finished">>
    /\ Len(history) >= 2
    /\ OnlyConsumer(1)
    /\ ret.op = "next"
    /\ ret.gen = 2
    /\ ret.calls = 1
    /\ ret.status = "StopIteration"

\* C11: getToken called on a digit returns a NUM token whose text is the whole
\* run of digits that starts there; the position has moved by the length of
\* the run and the character at it, if there is one, is not a digit.
C11_MaximalMunch ==
    (/\ ret.op = "getToken"
     /\ ret.start < length
     /\ input_string[ret.start + 1] \in Digits)
    => /\ ret.status = "return"
       /\ ret.token.kind = "NUM"
       /\ ret.token.text = SubSeq(input_string, ret.start + 1, position)
       /\ position - ret.start = Len(ret.token.text)
       /\ position > ret.start
       /\ \A k \in (ret.start + 1)..position : input_string[k] \in Digits
       /\ position < length => input_string[position + 1] \notin Digits

\* C11 witness: a number of two digits with another character behind it
C11_Witness ==
    /\ ret.op = "getToken"
    /\ ret.token = [text |-> <<"1", "2">>, kind |-> "NUM"]
    /\ position < length

\* the kind of each character that is a token by itself
KindOfCharacter ==
    ("+" :> "ADD") @@ ("-" :> "SUB") @@ ("*" :> "MUL") @@ ("/" :> "DIV") @@
    ("(" :> "LPR") @@ (")" :> "RPR") @@ (" " :> "WSP") @@ ("\n" :> "NLN")

\* every token handed out so far was returned by getToken
OnlyGetToken == \A k \in 1..Len(history) : history[k].op = "getToken"

\* C12: getToken called on one of + - * / ( ) space newline returns the token
\* whose text is that character and whose kind is ADD, SUB, MUL, DIV, LPR, RPR,
\* WSP, NLN respectively, and moves the position by 1: white space is returned,
\* not skipped, so five getToken calls on "1 2 +" return NUM, WSP, NUM, WSP, ADD.
C12_SingleCharacterTokens ==
    /\ (/\ ret.op = "getToken"
        /\ ret.start < length
        /\ input_string[ret.start + 1] \in DOMAIN KindOfCharacter)
       => /\ ret.status = "return"
          /\ ret.token.text = <<input_string[ret.start + 1]>>
          /\ ret.token.kind = KindOfCharacter[input_string[ret.start + 1]]
          /\ position = ret.start + 1
    /\ (input_string = DocstringInput /\ OnlyGetToken /\ Len(history) = 5)
       => [k \in 1..5 |-> history[k].token.kind]
              = <<"NUM", "WSP", "NUM", "WSP", "ADD">>

\* C12 witness: the five getToken calls of the docstring have been made
C12_Witness ==
    /\ input_string = DocstringInput
    /\ OnlyGetToken
    /\ Len(history) = 5
    /\ ret.op = "getToken"
    /\ ret.token = [text |-> <<"+">>, kind |-> "ADD"]

\* the digit characters, the one of value d at index d + 1
DigitCharacters == <<"0", "1", "2", "3", "4", "5", "6", "7", "8", "9">>

\* the decimal text of a non-negative integer, as str(n) writes it
RECURSIVE Decimal(_)
Decimal(n) ==
    IF n < 10
    THEN <<DigitCharacters[n + 1]>>
    ELSE Decimal(n \div 10) \o <<DigitCharacters[(n % 10) + 1]>>

\* a run of digits without its leading zeros, the last digit kept
RECURSIVE StripZeros(_)
StripZeros(text) ==
    IF Len(text) > 1 /\ text[1] = "0"
    THEN StripZeros(SubSeq(text, 2, Len(text)))
    ELSE text

\* C13: compute_prefix on a run of digits alone returns a leaf whose value is
\* a non-negative integer n, and the decimal text of n is the run without its
\* leading zeros: on the decimal text of n the leaf holds n, and leading zeros
\* are accepted and read in base 10.
C13_NumberLeaf ==
    (/\ ParsedFresh
     /\ length > 0
     /\ \A k \in 1..length : input_string[k] \in Digits)
    => /\ ret.status = "return"
       /\ ret.value.node = "Num"
       /\ ret.value.num >= 0
       /\ Decimal(ret.value.num) = StripZeros(input_string)
       /\ position = length

\* C13 witness: a run of three digits that begins with a zero and would be
\* another number in base 8
C13_Witness ==
    /\ ParsedFresh
    /\ input_string = <<"0", "1", "7">>
    /\ ret.value = [node |-> "Num", num |-> 17]

\* C14: compute_prefix does not look at what follows the expression: when the
\* first j characters of the input are one whole prefix expression and more
\* input follows (not the rest of its last number), the call returns the tree
\* of those j characters, raises nothing and leaves position at j, whatever
\* the rest is.
C14_TrailingInputIgnored ==
    ParsedFresh
    => \A j \in 1..(length - 1) :
         (/\ ValidExpression(SubSeq(input_string, 1, j))
          /\ BetweenTokens(input_string, j))
         => /\ ret.status = "return"
            /\ ret.error = NoError
            /\ ret.value = TreeOf(SubSeq(input_string, 1, j))
            /\ position = j

\* C14 witness: "+1 2*" gave the tree of "+1 2" and left the operator behind
\* it, which has no operands, unread
C14_Witness ==
    /\ ParsedFresh
    /\ input_string = <<"+", "1", " ", "2", "*">>
    /\ ret.status = "return"
    /\ ret.value = BinaryExpression("Add", Num(1), Num(2))
    /\ position = 4

\* no leaf of the tree holds a negative number
RECURSIVE NonNegative(_)
NonNegative(tree) ==
    IF tree.node = "None"
    THEN TRUE
    ELSE IF tree.node = "Num"
    THEN tree.num >= 0
    ELSE NonNegative(tree.left) /\ NonNegative(tree.right)

\* the whole input is a '-' and, behind it, a run of digits and nothing else
MinusNumber ==
    /\ length >= 2
    /\ input_string[1] = "-"
    /\ \A k \in 2..length : input_string[k] \in Digits

\* C15: there are no signed numbers.  Wherever a '-' stands right before a
\* digit, getToken makes the SUB token of the '-' alone and then a NUM token
\* that starts at the digit; every NUM token the parser fetches is a non-empty
\* run of digits and no tree has a negative leaf; and a '-' followed by digits
\* and nothing else is fetched as SUB, NUM, EOF and fails with
\* UnexpectedToken(EOF).
C15_NoSignHandling ==
    (ret.op = "compute_prefix")
    => /\ \A p \in 1..(length - 1) :
            (input_string[p] = "-" /\ input_string[p + 1] \in Digits)
            => LET sub == getToken(input_string, length, p - 1)
                   num == getToken(input_string, length, p)
               IN  /\ sub.status = "return"
                   /\ sub.token = Token(<<"-">>, "SUB")
                   /\ sub.position = p
                   /\ num.status = "return"
                   /\ num.token.kind = "NUM"
                   /\ num.token.text[1] = input_string[p + 1]
       /\ \A k \in 1..Len(ret.fetched) :
            ret.fetched[k].kind = "NUM"
            => /\ ret.fetched[k].text # <<>>
               /\ \A i \in 1..Len(ret.fetched[k].text) :
                    ret.fetched[k].text[i] \in Digits
       /\ NonNegative(ret.value)
       /\ (ParsedFresh /\ MinusNumber)
          => /\ ret.status = "raise"
             /\ ret.error = UnexpectedToken("EOF")
             /\ ret.value = NoValue
             /\ ret.fetched = <<Token(<<"-">>, "SUB"),
                                Token(SubSeq(input_string, 2, length), "NUM"),
                                Token(<<>>, "EOF")>>

\* C15 witness: "-12" was parsed and failed at the end of the input
C15_Witness ==
    /\ ParsedFresh
    /\ input_string = <<"-", "1", "2">>
    /\ ret.status = "raise"
    /\ ret.fetched[2] = Token(<<"1", "2">>, "NUM")

(***************************************************************************)
(* Properties of the token texts, under Spec.                              *)
(***************************************************************************)
\* the tokens successive getToken calls return from offset p of text on, up to
\* the first EOF (or the first error)
RECURSIVE AllTokensFrom(_, _)
AllTokensFrom(text, p) ==
    LET r == getToken(text, Len(text), p)
    IN  IF r.status = "raise" \/ r.token.kind = "EOF"
        THEN <<>>
        ELSE <<r.token>> \o AllTokensFrom(text, r.position)

\* the texts of a sequence of tokens, one after the other
RECURSIVE Texts(_)
Texts(toks) ==
    IF toks = <<>>
    THEN <<>>
    ELSE toks[1].text \o Texts(Tail(toks))

\* the tokens handed out so far, in call order
HistoryTokens == [k \in 1..Len(history) |-> history[k].token]

\* every character of the input is one the lexer recognises
RecognisedInput == \A k \in 1..length : input_string[k] \in Recognised

\* C16: the text of a token getToken returns is the input between the
\* position before and the position after the call; on an input of recognised
\* characters the texts of the tokens of a getToken scan up to the first EOF,
\* put together, are the input; and while only getToken has been called the
\* texts returned so far are the input up to position, no character left out
\* and none in two tokens.
C16_LosslessTokenization ==
    /\ (ret.op = "getToken" /\ ret.status = "return")
       => /\ ret.token.text = SubSeq(input_string, ret.start + 1, position)
          /\ Len(ret.token.text) = position - ret.start
    /\ RecognisedInput
       => Texts(AllTokensFrom(input_string, 0)) = input_string
    /\ (/\ RecognisedInput
        /\ ret.op = "getToken"
        /\ ret.token.kind # "EOF"
        /\ OnlyGetToken)
       => /\ HistoryTokens
               = SubSeq(AllTokensFrom(input_string, 0), 1, Len(history))
          /\ Texts(HistoryTokens) = SubSeq(input_string, 1, position)

\* C16 witness: getToken calls alone have read all of "12+", a number of two
\* digits first
C16_Witness ==
    /\ input_string = <<"1", "2", "+">>
    /\ OnlyGetToken
    /\ Len(history) = 2
    /\ ret.op = "getToken"
    /\ ret.token = Token(<<"+">>, "ADD")
    /\ position = length

(***************************************************************************)
(* Properties of the position compute_prefix leaves, under SpecParse.      *)
(***************************************************************************)
\* the position n next_valid_token calls leave, made from offset p of text on
RECURSIVE PositionAfter(_, _, _)
PositionAfter(text, p, n) ==
    IF n = 0
    THEN p
    ELSE PositionAfter(text, next_valid_token(text, Len(text), p).position, n - 1)

\* the input from the position the last call started at
Rest == SubSeq(input_string, ret.start + 1, length)

\* C17: compute_prefix reads no further than its expression.  When it returns
\* a tree, the tokens it fetched are the next tokens of the input from where
\* it started, position is the end of the last of them (its text is the input
\* just before position), and nothing behind it was read; and a call made on
\* a Lexer that was read from before does what a call on a fresh Lexer over
\* the rest of the input does: it parses the expression that starts at the
\* first token behind the previous position.
C17_NoLookahead ==
    /\ (ret.op = "compute_prefix" /\ ret.status = "return")
       => LET n == Len(ret.fetched)
              last == ret.fetched[n]
          IN  /\ n >= 1
              /\ ret.fetched = SubSeq(ValidTokensFrom(input_string, ret.start), 1, n)
              /\ position = PositionAfter(input_string, ret.start, n)
              /\ position - Len(last.text) >= ret.start
              /\ last.text = SubSeq(input_string, position - Len(last.text) + 1,
                                    position)
              /\ last.kind = "NUM"
              /\ ret.calls = n + Cardinality({k \in (ret.start + 1)..position :
                                                 input_string[k] \in {" ", "\n"}})
    /\ (ret.op = "compute_prefix" /\ ret.start > 0)
       => LET r == compute_prefix(Rest, Len(Rest), 0)
          IN  /\ ret.status = r.status
              /\ ret.value = r.value
              /\ ret.error = r.error
              /\ ret.fetched = r.fetched
              /\ position = ret.start + r.position
              /\ (ret.status = "return" /\ ret.start < position)
                 => ret.fetched[1]
                      = next_valid_token(input_string, length, ret.start).token

\* C17 witness: on "1+2 1" a call made at position 1, behind the first
\* expression, returned the tree of "+2 1" and left the position at the end
C17_Witness ==
    /\ input_string = <<"1", "+", "2", " ", "1">>
    /\ ret.op = "compute_prefix"
    /\ ret.start = 1
    /\ ret.status = "return"
    /\ ret.value = BinaryExpression("Add", Num(2), Num(1))
    /\ position = 5

(***************************************************************************)
(* Properties of interleaved consumers, under SpecTokens.                  *)
(***************************************************************************)
\* h is what is left of the token sequence a when some of its WSP and NLN
\* tokens, and nothing else, are taken out
RECURSIVE MergedFrom(_, _)
MergedFrom(h, a) ==
    IF a = <<>>
    THEN h = <<>>
    ELSE \/ h # <<>> /\ h[1] = a[1] /\ MergedFrom(Tail(h), Tail(a))
         \/ a[1].kind \in {"WSP", "NLN"} /\ MergedFrom(h, Tail(a))

\* the tokens of a sequence that are neither WSP nor NLN
RECURSIVE Significant(_)
Significant(toks) ==
    IF toks = <<>>
    THEN <<>>
    ELSE IF toks[1].kind \in {"WSP", "NLN"}
    THEN Significant(Tail(toks))
    ELSE <<toks[1]>> \o Significant(Tail(toks))

\* C18: making a tokens() iterator leaves position where it was; a token an
\* iterator yields ends at position, with only blanks between the position
\* before the pull and its first character; and on an input of recognised
\* characters, however pulls and direct getToken / next_valid_token calls are
\* interleaved, the input up to position is the texts of the first m tokens of
\* one getToken scan of the whole input, for some m, and the tokens handed out
\* so far, in call order, are those m tokens less some WSP / NLN ones, none
\* that is not a blank left out and none handed out twice.
C18_LazySharedPosition ==
    /\ ret.op = "tokens" => position = ret.start
    /\ (ret.op = "next" /\ ret.status = "yield")
       => LET first == position - Len(ret.token.text)
          IN  /\ first >= ret.start
              /\ ret.token.text = SubSeq(input_string, first + 1, position)
              /\ ret.token.kind \notin {"WSP", "NLN", "EOF"}
              /\ \A k \in (ret.start + 1)..first : input_string[k] \in {" ", "\n"}
    /\ RecognisedInput
       => LET all == AllTokensFrom(input_string, 0)
          IN  \E m \in 0..Len(all) :
                /\ Texts(SubSeq(all, 1, m)) = SubSeq(input_string, 1, position)
                /\ MergedFrom(HistoryTokens, SubSeq(all, 1, m))
                /\ Significant(HistoryTokens) = Significant(SubSeq(all, 1, m))

\* C18 witness: on "1 +" getToken took the number, then a pull on an iterator
\* went over the space and yielded the operator
C18_Witness ==
    /\ input_string = <<"1", " ", "+">>
    /\ history = <<Event("getToken", 0, Token(<<"1">>, "NUM")),
                   Event("next", 1, Token(<<"+">>, "ADD"))>>
    /\ ret.op = "next"
    /\ ret.start = 1
    /\ position = 3

(***************************************************************************)
(* Termination of compute_prefix, under SpecParse.                         *)
(***************************************************************************)
\* C19: compute_prefix on a fresh Lexer ends, with a tree or with an error,
\* having called getToken at least once and at most length + 1 times: a
\* getToken call at any offset that does not return EOF leaves the position
\* at least 1 further, an EOF the parser fetches is the last token it fetches
\* and the call raises UnexpectedToken(EOF), and the position the call leaves
\* is within the input.
C19_Termination ==
    ParsedFresh
    => /\ \/ ret.status = "return" /\ ret.value # NoValue /\ ret.error = NoError
          \/ ret.status = "raise" /\ ret.value = NoValue /\ ret.error # NoError
       /\ ret.calls >= 1
       /\ ret.calls <= length + 1
       /\ position <= length
       /\ \A p \in 0..length :
            LET g == getToken(input_string, length, p)
            IN  /\ g.calls = 1
                /\ (g.status = "return" /\ g.token.kind = "EOF")
                   => (p = length /\ g.position = p)
                /\ ~ (g.status = "return" /\ g.token.kind = "EOF")
                   => (g.position >= p + 1 /\ g.position <= length)
       /\ \A k \in 1..Len(ret.fetched) :
            ret.fetched[k].kind = "EOF"
            => /\ k = Len(ret.fetched)
               /\ ret.status = "raise"
               /\ ret.error = UnexpectedToken("EOF")

\* C19 witness: "+ 1" took all of the length + 1 getToken calls, one for each
\* character and one for the EOF that ended the parse
C19_Witness ==
    /\ ParsedFresh
    /\ input_string = <<"+", " ", "1">>
    /\ ret.calls = length + 1
    /\ ret.status = "raise"
    /\ ret.fetched[3].kind = "EOF"

====
